---- MODULE Spec2Model ----
(***************************************************************************)
(* Model of skilletlib's Panoply configuration differencing                *)
(* (src/skilletlib/panoply.py): generate_skillet_from_configs, the         *)
(* recursive comparator __check_element, the snippet assembly and the      *)
(* ordering of the snippets by __order_snippets; and of the Panos         *)
(* constructor, check_content_updates, wait_for_job, __split_xpath,       *)
(* __clean_uuid and execute_cmd, each with a specification of its own.     *)
(*                                                                         *)
(* A document is the sequence of its elements below the <config> root in   *)
(* document order; element 0 is the root.  An xpath string is the sequence *)
(* of the parts that '/' separates; a part is a tag with at most one       *)
(* predicate.                                                              *)
(***************************************************************************)
EXTENDS Integers, Sequences, FiniteSets, TLC

\* ------------------------------------------------------------ bounds
MaxNodes == 3
MaxEdits == 1
NumRandom == 2
MaxSnippets == 3
MaxVersion == 3
MaxEntries == 3
MaxInterval == 2
MaxTimeout == 3
MaxTime == 6
MaxChars == 6

\* ------------------------------------------------------------ documents
None == "None"

PlainTags == {"network", "interface"}

Texts == {None, " ", "0000", "6666"}

EntryAttribs ==
    { <<<<"name", "eth1">>>>,
      <<<<"name", "eth2">>>>,
      <<<<"uuid", "u1">>>>,
      <<<<"name", "eth1">>, <<"uuid", "u1">>>> }

Elements ==
    [tag : {"entry"}, attrib : EntryAttribs, text : {None}]
      \cup [tag : PlainTags, attrib : {<<>>}, text : Texts]

Node(p, e) == [parent |-> p, tag |-> e.tag, attrib |-> e.attrib, text |-> e.text]

RECURSIVE AncestorsOrSelf(_, _)
AncestorsOrSelf(t, n) ==
    IF n = 0 THEN {0} ELSE {n} \cup AncestorsOrSelf(t, t[n].parent)

\* the elements a new last element of the document can be a child of
OpenElements(t) == IF t = <<>> THEN {0} ELSE AncestorsOrSelf(t, Len(t))

RECURSIVE TreesOfSize(_)
TreesOfSize(n) ==
    IF n = 0 THEN {<<>>}
    ELSE UNION { { Append(t, Node(p, e)) : p \in OpenElements(t), e \in Elements }
                 : t \in TreesOfSize(n - 1) }

Trees == UNION { TreesOfSize(n) : n \in 0..MaxNodes }

Ids(t) == [i \in 1..Len(t) |-> i]

\* el.findall('./') and iteration over el: the child elements in document order
Children(t, n) == SelectSeq(Ids(t), LAMBDA j : t[j].parent = n)

RECURSIVE Subtree(_, _)
Subtree(t, n) ==
    {n} \cup UNION { Subtree(t, t2) : t2 \in { j \in 1..Len(t) : t[j].parent = n } }

\* etree.tostring(element): the element with its attributes, text and children
RECURSIVE Tostring(_, _)
RECURSIVE TostringAll(_, _, _)
Tostring(t, n) ==
    [tag |-> t[n].tag, attrib |-> t[n].attrib, text |-> t[n].text,
     children |-> TostringAll(t, Children(t, n), 1)]

\* the serialized children, in document order
TostringAll(t, s, i) ==
    IF i > Len(s) THEN <<>> ELSE <<Tostring(t, s[i])>> \o TostringAll(t, s, i + 1)

\* ------------------------------------------------------------ xpath
Part(tag, kind, attribs, text, index) ==
    [tag |-> tag, kind |-> kind, attribs |-> attribs, text |-> text, index |-> index]

Bare(tag) == Part(tag, "bare", <<>>, "", 0)

\* lxml rejects a predicate that is empty or holds two comparisons with no operator
XPathValid(xpath) ==
    \A i \in 1..Len(xpath) : xpath[i].kind = "attr" => Len(xpath[i].attribs) = 1

HasAttrib(node, kv) == \E i \in 1..Len(node.attrib) : node.attrib[i] = kv

\* one location step from the context element c
Match(t, c, part) ==
    LET same == SelectSeq(Children(t, c), LAMBDA j : t[j].tag = part.tag)
    IN  CASE part.kind = "bare" -> same
          [] part.kind = "attr" ->
                SelectSeq(same, LAMBDA j : HasAttrib(t[j], part.attribs[1]))
          [] part.kind = "text" ->
                SelectSeq(same, LAMBDA j : t[j].text = part.text)
          [] part.kind = "index" ->
                IF part.index <= Len(same) THEN <<same[part.index]>> ELSE <<>>

RECURSIVE Step(_, _, _, _)
Step(t, ctx, part, i) ==
    IF i > Len(ctx) THEN <<>>
    ELSE Match(t, ctx[i], part) \o Step(t, ctx, part, i + 1)

RECURSIVE EvalFrom(_, _, _, _)
EvalFrom(t, ctx, xpath, i) ==
    IF i > Len(xpath) THEN ctx
    ELSE EvalFrom(t, Step(t, ctx, xpath[i], 1), xpath, i + 1)

\* doc.xpath(xpath) for a valid xpath that starts with '.': the matching elements
XPath(t, xpath) == EvalFrom(t, <<0>>, xpath, 2)

\* ------------------------------------------------------------ comparator
\* str.strip() on the texts of the documents: a whitespace-only text becomes empty
Strip(text) == IF text = " " THEN "" ELSE text

\* __check_children_are_list: two or more children, all with one tag
CheckChildrenAreList(t, c) ==
    IF Len(c) <= 1 THEN FALSE
    ELSE \A i \in 1..Len(c) : t[c[i]].tag = t[c[1]].tag

\* xmldiff diff_trees(found_element, el): the length of the edit script, which
\* is empty exactly when the two elements are equal as trees
DiffTrees(pc, found_element, lt, el) ==
    IF Tostring(pc, found_element) = Tostring(lt, el) THEN 0 ELSE 1

\* the attribute comparisons of the predicate, the uuid attribute left out
Attribs(attrib) ==
    SelectSeq(attrib, LAMBDA kv : kv[1] # "uuid")

\* e.text.strip() of an element without text raises AttributeError
PathEntryRaises(lt, e, is_list) ==
    /\ Len(lt[e].attrib) = 0
    /\ is_list
    /\ lt[e].text = None

PathEntry(lt, e, is_list, index) ==
    IF Len(lt[e].attrib) > 0
    THEN Part(lt[e].tag, "attr", Attribs(lt[e].attrib), "", 0)
    ELSE IF is_list
         THEN IF Strip(lt[e].text) # ""
              THEN Part(lt[e].tag, "text", <<>>, Strip(lt[e].text), 0)
              ELSE Part(lt[e].tag, "index", <<>>, "", index)
         ELSE Bare(lt[e].tag)

\* the comparison with == in place of !=
TextDiffersInverted(pc, found_element, lt, el) == pc[found_element].text = lt[el].text

\* found_element.text != el.text
TextDiffers(pc, found_element, lt, el) == pc[found_element].text # lt[el].text

\* the list check without its early return
ListUnchangedNever(pc, found_element, lt, el) == FALSE

\* the children are a list and len(diffs) == 0
ListUnchanged(pc, found_element, lt, el) ==
    /\ CheckChildrenAreList(lt, Children(lt, el))
    /\ DiffTrees(pc, found_element, lt, el) = 0

\* what a call of the comparator leaves behind: the exception it raised (None
\* when it returned), the xpaths it returns, and for each xpath the element of
\* the latest document it was appended for; visits lists the calls made
Return(not_founds, els, visits) ==
    [exc |-> None, not_founds |-> not_founds, els |-> els, visits |-> visits]

Raise(exc, r) == [r EXCEPT !.exc = exc]

Extend(acc, r) ==
    [exc |-> r.exc,
     not_founds |-> acc.not_founds \o r.not_founds,
     els |-> acc.els \o r.els,
     visits |-> acc.visits \o r.visits]

RECURSIVE CheckElement(_, _, _, _)
RECURSIVE CheckChildren(_, _, _, _, _, _, _)

\* the else branch of __check_element: el has no counterpart in the previous
\* document, its xpath is returned and its children are not looked at
NewElementDescends(pc, lt, el, xpath, here) ==
    CheckChildren(pc, lt, Children(lt, el), 1, xpath, FALSE,
                  Return(<<xpath>>, <<el>>, here))

NewElement(pc, lt, el, xpath, here) == Return(<<xpath>>, <<el>>, here)

CheckElement(pc, lt, el, xpath) ==
    LET here == <<[el |-> el, xpath |-> xpath]>>
    IN
    IF ~XPathValid(xpath) THEN Raise("XPathEvalError", Return(<<>>, <<>>, here))
    ELSE
    LET found_elements == XPath(pc, xpath)
    IN
    IF found_elements # <<>>
    THEN LET found_element == found_elements[1]
             children == Children(lt, el)
         IN  IF Len(children) = 0
             THEN IF TextDiffers(pc, found_element, lt, el)
                  THEN Return(<<xpath>>, <<el>>, here)
                  ELSE Return(<<>>, <<>>, here)
             ELSE LET list == CheckChildrenAreList(lt, children)
                  IN  IF ListUnchanged(pc, found_element, lt, el)
                      THEN Return(<<>>, <<>>, here)
                      ELSE CheckChildren(pc, lt, children, 1, xpath, list,
                                         Return(<<>>, <<>>, here))
    ELSE NewElement(pc, lt, el, xpath, here)

CheckChildren(pc, lt, children, index, xpath, is_list, acc) ==
    IF index > Len(children) THEN acc
    ELSE LET e == children[index]
         IN  IF PathEntryRaises(lt, e, is_list)
             THEN Raise("AttributeError", acc)
             ELSE LET n_xpath == Append(xpath, PathEntry(lt, e, is_list, index))
                      r == Extend(acc, CheckElement(pc, lt, e, n_xpath))
                  IN  IF r.exc # None THEN r
                      ELSE CheckChildren(pc, lt, children, index + 1, xpath, is_list, r)

\* the loop of generate_skillet_from_configs over the children of the root
RECURSIVE CheckRoot(_, _, _, _)
CheckRoot(pc, lt, i, acc) ==
    LET cs == Children(lt, 0)
    IN  IF i > Len(cs) THEN acc
        ELSE LET o_xpath == <<Bare("."), Bare(lt[cs[i]].tag)>>
                 r == Extend(acc, CheckElement(pc, lt, cs[i], o_xpath))
             IN  IF r.exc # None THEN r ELSE CheckRoot(pc, lt, i + 1, r)

\* ------------------------------------------------------------ snippet assembly
\* the split without dropping the last part from the container
SplitXpathWhole(xpath) == <<xpath, xpath[Len(xpath)]>>

\* __split_xpath: the xpath without its last part, and the last part
SplitXpath(xpath) == <<SubSeq(xpath, 1, Len(xpath) - 1), xpath[Len(xpath)]>>

\* re.sub(r'^\./', r'/config/', set_xpath): only a leading './' is rewritten
ForceFullXpath(set_xpath) ==
    IF Len(set_xpath) >= 2 /\ set_xpath[1] = Bare(".")
    THEN <<Bare(""), Bare("config")>> \o Tail(set_xpath)
    ELSE set_xpath

\* re.sub(r'^/config/', r'\./', xpath)
FullRelativeXpath(xpath) ==
    IF Len(xpath) >= 3 /\ xpath[1] = Bare("") /\ xpath[2] = Bare("config")
    THEN <<Bare(".")>> \o SubSeq(xpath, 3, Len(xpath))
    ELSE xpath

\* re.sub(r'\[.*\]', '', entry)
TagOf(entry) == entry.tag

ignored_xpaths_relative ==
    { <<Bare("."), Bare("mgt-config"), Bare("users"),
        Part("entry", "attr", <<<<"name", "admin">>>>, "", 0)>> }

ignored_xpaths ==
    { <<Bare(""), Bare("config"), Bare("mgt-config"), Bare("users"),
        Part("entry", "attr", <<<<"name", "admin">>>>, "", 0)>> }

\* the loop of generate_skillet_from_configs over not_found_xpaths; random[i]
\* is the value random.random() gives for the i-th xpath
RECURSIVE Assemble(_, _, _, _)
Assemble(lt, not_founds, random, i) ==
    IF i > Len(not_founds) THEN <<>>
    ELSE LET xpath == not_founds[i]
             split == SplitXpath(xpath)
             set_xpath == ForceFullXpath(split[1])
             changed_elements == XPath(lt, xpath)
             rest == Assemble(lt, not_founds, random, i + 1)
         IN  IF set_xpath \in ignored_xpaths THEN rest
             ELSE IF changed_elements = <<>> THEN rest
             ELSE <<[name |-> <<TagOf(split[2]), random[i]>>,
                     xpath |-> set_xpath,
                     element |-> Tostring(lt, changed_elements[1]),
                     full_xpath |-> FullRelativeXpath(xpath)]>> \o rest

\* ------------------------------------------------------------ ordering
\* an xpath string as the tokens the ordering prefixes are made of
PartTokens(part) ==
    (IF part.tag = "" THEN <<>> ELSE <<part.tag>>)
      \o (CASE part.kind = "bare" -> <<>>
            [] part.kind = "attr" ->
                 <<"[">> \o (IF Len(part.attribs) = 0 THEN <<>>
                             ELSE <<"@", part.attribs[1][1], "=", part.attribs[1][2]>>)
                         \o <<"]">>
            [] part.kind = "text" -> <<"[", "text()=", part.text, "]">>
            [] part.kind = "index" -> <<"[", ToString(part.index), "]">>)

RECURSIVE Tokens(_, _)
Tokens(xpath, i) ==
    IF i > Len(xpath) THEN <<>>
    ELSE (IF i > 1 THEN <<"/">> ELSE <<>>) \o PartTokens(xpath[i]) \o Tokens(xpath, i + 1)

\* x in full_xpath
Contains(s, x) ==
    \E i \in 0..(Len(s) - Len(x)) : SubSeq(s, i + 1, i + Len(x)) = x

\* the list xpaths of __order_snippets; '/shared/' and '/tag/entry' are adjacent
\* string literals with no comma between them, which Python joins into one
xpaths ==
    << <<"/", "shared", "/", "certificate">>,
       <<"/", "shared", "/", "ssl-tls-service-profile">>,
       <<"/", "shared", "/", "tag">>,
       <<"/", "shared", "/", "profiles">>,
       <<"/", "shared", "/", "reports">>,
       <<"/", "shared", "/", "/", "tag", "/", "entry">>,
       <<"/", "deviceconfig", "/", "system">>,
       <<"/", "network", "/", "interface">>,
       <<"/", "network", "/", "virtual-wire">>,
       <<"/", "network", "/", "vlan">>,
       <<"/", "network", "/", "ike">>,
       <<"/", "network", "/", "tunnel">>,
       <<"/", "network", "/", "virtual-router">>,
       <<"/", "network", "/", "profiles", "/", "zone-protection-profile">>,
       <<"/", "zone", "/", "entry">>,
       <<"/", "profiles", "/", "custom-url-category">>,
       <<"/", "address", "/", "entry">> >>

post_xpaths == << <<"/", "rulebase">> >>

Matches(s, x) == Contains(Tokens(s.full_xpath, 1), x)

\* __filter_snippets_by_xpath
FilterSnippetsByXpath(snippets, xpath) ==
    SelectSeq(snippets, LAMBDA s : Matches(s, xpath))

\* the two loops that extend a list with the snippets of each prefix in turn
RECURSIVE FilterAll(_, _, _)
FilterAll(snippets, prefixes, i) ==
    IF i > Len(prefixes) THEN <<>>
    ELSE FilterSnippetsByXpath(snippets, prefixes[i]) \o FilterAll(snippets, prefixes, i + 1)

In(s, list) == \E i \in 1..Len(list) : list[i] = s

\* the loop taking the snippets from the last to the first
RECURSIVE AppendRestReversed(_, _, _, _)
AppendRestReversed(snippets, post_snippets, ordered_snippets, i) ==
    IF i > Len(snippets) THEN ordered_snippets
    ELSE LET s == snippets[Len(snippets) - i + 1]
         IN  AppendRestReversed(snippets, post_snippets,
                                IF ~In(s, ordered_snippets) /\ ~In(s, post_snippets)
                                THEN Append(ordered_snippets, s)
                                ELSE ordered_snippets,
                                i + 1)

\* the loop without its test against post_snippets
RECURSIVE AppendRestNoPost(_, _, _, _)
AppendRestNoPost(snippets, post_snippets, ordered_snippets, i) ==
    IF i > Len(snippets) THEN ordered_snippets
    ELSE AppendRestNoPost(snippets, post_snippets,
                          IF ~In(snippets[i], ordered_snippets)
                          THEN Append(ordered_snippets, snippets[i])
                          ELSE ordered_snippets,
                          i + 1)

\* for s in snippets: if s not in ordered_snippets and s not in post_snippets
RECURSIVE AppendRest(_, _, _, _)
AppendRest(snippets, post_snippets, ordered_snippets, i) ==
    IF i > Len(snippets) THEN ordered_snippets
    ELSE AppendRest(snippets, post_snippets,
                    IF ~In(snippets[i], ordered_snippets) /\ ~In(snippets[i], post_snippets)
                    THEN Append(ordered_snippets, snippets[i])
                    ELSE ordered_snippets,
                    i + 1)

\* for ps in post_snippets: if ps not in ordered_snippets
RECURSIVE AppendPost(_, _, _)
AppendPost(post_snippets, ordered_snippets, i) ==
    IF i > Len(post_snippets) THEN ordered_snippets
    ELSE AppendPost(post_snippets,
                    IF ~In(post_snippets[i], ordered_snippets)
                    THEN Append(ordered_snippets, post_snippets[i])
                    ELSE ordered_snippets,
                    i + 1)

OrderSnippets(snippets) ==
    LET post_snippets == FilterAll(snippets, post_xpaths, 1)
    IN  AppendPost(post_snippets,
                   AppendRest(snippets, post_snippets, FilterAll(snippets, xpaths, 1), 1),
                   1)

\* ------------------------------------------------------------ state
VARIABLES
    previous_doc,       \* etree.fromstring(previous_config)
    latest_doc,         \* etree.fromstring(latest_config)
    edits,              \* the number of changes made to the latest configuration
    pc,                 \* where the call stands: "config", "order", "init", ... before
                        \* it, "done", "constructed", ... or "raised" after it
    exc,                \* the exception generate_skillet_from_configs raised
    not_found_xpaths,   \* the xpaths the comparator returned
    not_found_els,      \* the element of latest_doc each xpath was appended for
    visits,             \* the calls of __check_element: element and xpath
    snippets,           \* the snippets before ordering
    result,             \* the list generate_skillet_from_configs returns
    well_formed,        \* whether latest_config and previous_config are well-formed XML
    panos,              \* the Panos object under construction and the device it talks to
    updates,            \* a call of check_content_updates
    job,                \* a call of wait_for_job
    split,              \* a call of __split_xpath
    cleaned,            \* a call of __clean_uuid
    cmd                 \* a call of execute_cmd

vars == <<previous_doc, latest_doc, edits, pc, exc, not_found_xpaths,
          not_found_els, visits, snippets, result, well_formed, panos, updates, job,
          split, cleaned, cmd>>

\* both configuration texts parse
AllWellFormed == [latest |-> TRUE, previous |-> TRUE]

\* etree.fromstring(text): the exception it raises, None when the text parses
FromstringRecover(ok) == None

Fromstring(ok) == IF ok THEN None ELSE "XMLSyntaxError"

\* the previous and the latest configuration start out as the same document
Init ==
    /\ split = None
    /\ cleaned = None
    /\ cmd = None
    /\ \/ /\ well_formed = AllWellFormed
          /\ previous_doc \in Trees
          /\ latest_doc = previous_doc
       \/ /\ well_formed \in [latest : BOOLEAN, previous : BOOLEAN] \ {AllWellFormed}
          /\ previous_doc = <<>>
          /\ latest_doc = <<>>
    /\ panos = None
    /\ updates = None
    /\ job = None
    /\ edits = 0
    /\ pc = "config"
    /\ exc = None
    /\ not_found_xpaths = <<>>
    /\ not_found_els = <<>>
    /\ visits = <<>>
    /\ snippets = <<>>
    /\ result = <<>>

\* ------------------------------------------------------------ configuration changes
\* the last element of the subtree of n in document order
LastOf(t, n) == CHOOSE m \in Subtree(t, n) : \A k \in Subtree(t, n) : k <= m

\* an element with its descendants, as a document of its own
Fragments ==
    { f \in Trees : Len(f) >= 1 /\ \A i \in 2..Len(f) : f[i].parent >= 1 }

\* the fragments of at most k elements
FragmentsUpTo == [k \in 0..MaxNodes |-> { f \in Fragments : Len(f) <= k }]

\* the document with fragment f inserted at position pos as a child of p
InsertAt(t, pos, p, f) ==
    [i \in 1..(Len(t) + Len(f)) |->
        IF i < pos THEN t[i]
        ELSE IF i < pos + Len(f)
        THEN [f[i - pos + 1] EXCEPT !.parent = IF @ = 0 THEN p ELSE @ + pos - 1]
        ELSE [t[i - Len(f)] EXCEPT !.parent = IF @ >= pos THEN @ + Len(f) ELSE @]]

RemoveSubtree(t, n) ==
    LET hi == LastOf(t, n)
        size == hi - n + 1
    IN  [i \in 1..(Len(t) - size) |->
            IF i < n THEN t[i]
            ELSE [t[i + size] EXCEPT !.parent = IF @ > hi THEN @ - size ELSE @]]

Changed(doc) ==
    /\ well_formed = AllWellFormed
    /\ latest_doc' = doc
    /\ edits' = edits + 1
    /\ UNCHANGED <<previous_doc, pc, exc, not_found_xpaths, not_found_els,
                   visits, snippets, result, well_formed, panos, updates, job,
                   split, cleaned, cmd>>

SetText ==
    /\ pc = "config" /\ edits < MaxEdits
    /\ \E n \in 1..Len(latest_doc), text \in Texts :
          /\ latest_doc[n].tag \in PlainTags
          /\ text # latest_doc[n].text
          /\ Changed([latest_doc EXCEPT ![n].text = text])

SetAttrib ==
    /\ pc = "config" /\ edits < MaxEdits
    /\ \E n \in 1..Len(latest_doc), attrib \in EntryAttribs :
          /\ latest_doc[n].tag = "entry"
          /\ attrib # latest_doc[n].attrib
          /\ Changed([latest_doc EXCEPT ![n].attrib = attrib])

AddElement ==
    /\ pc = "config" /\ edits < MaxEdits
    /\ Len(latest_doc) < MaxNodes
    /\ \E p \in 0..Len(latest_doc), f \in FragmentsUpTo[MaxNodes - Len(latest_doc)] :
          Changed(InsertAt(latest_doc, LastOf(latest_doc, p) + 1, p, f))

RemoveElement ==
    /\ pc = "config" /\ edits < MaxEdits
    /\ \E n \in 1..Len(latest_doc) :
          Changed(RemoveSubtree(latest_doc, n))

\* ------------------------------------------------------------ the diff
GenerateSkilletFromConfigs ==
    /\ pc = "config"
    /\ IF Fromstring(well_formed.latest) # None
       THEN /\ pc' = "raised"
            /\ exc' = Fromstring(well_formed.latest)
            /\ UNCHANGED <<visits, not_found_xpaths, not_found_els, snippets, result>>
       ELSE IF Fromstring(well_formed.previous) # None
       THEN /\ pc' = "raised"
            /\ exc' = Fromstring(well_formed.previous)
            /\ UNCHANGED <<visits, not_found_xpaths, not_found_els, snippets, result>>
       ELSE
       LET r == CheckRoot(previous_doc, latest_doc, 1, Return(<<>>, <<>>, <<>>))
       IN  /\ visits' = r.visits
           /\ IF r.exc # None
              THEN /\ pc' = "raised"
                   /\ exc' = r.exc
                   /\ UNCHANGED <<not_found_xpaths, not_found_els, snippets, result>>
              ELSE \E random \in [1..Len(r.not_founds) -> 1..NumRandom] :
                   /\ pc' = "done"
                   /\ exc' = None
                   /\ not_found_xpaths' = r.not_founds
                   /\ not_found_els' = r.els
                   /\ snippets' = Assemble(latest_doc, r.not_founds, random, 1)
                   /\ result' = OrderSnippets(snippets')
    /\ UNCHANGED <<previous_doc, latest_doc, edits, well_formed, panos, updates, job,
                   split, cleaned, cmd>>

Next ==
    \/ SetText
    \/ SetAttrib
    \/ AddElement
    \/ RemoveElement
    \/ GenerateSkilletFromConfigs

Spec == Init /\ [][Next]_vars

\* ------------------------------------------------------------ the diff of user accounts
\* documents with the administrators of mgt-config: users holds the accounts
\* named in names, each with a phash child, and the root may have a network child
UserNames == { <<"admin">>, <<"guest">>, <<"admin", "guest">> }

Hashes == {"0000", "6666"}

UserDoc(names, hashes, net) ==
    <<Node(0, [tag |-> "mgt-config", attrib |-> <<>>, text |-> None]),
      Node(1, [tag |-> "users", attrib |-> <<>>, text |-> None])>>
    \o [i \in 1..(2 * Len(names)) |->
          IF i % 2 = 1
          THEN Node(2, [tag |-> "entry",
                        attrib |-> <<<<"name", names[(i + 1) \div 2]>>>>,
                        text |-> None])
          ELSE Node(i + 1, [tag |-> "phash", attrib |-> <<>>, text |-> hashes[i \div 2]])]
    \o IF net = None THEN <<>>
       ELSE <<Node(0, [tag |-> "network", attrib |-> <<>>, text |-> net])>>

UserDocs ==
    { UserDoc(names, hashes, net) :
        names \in UserNames, hashes \in [1..2 -> Hashes], net \in Hashes \cup {None} }

InitIgnore ==
    /\ split = None
    /\ cleaned = None
    /\ cmd = None
    /\ previous_doc \in UserDocs
    /\ latest_doc \in UserDocs
    /\ well_formed = AllWellFormed
    /\ edits = 0
    /\ pc = "config"
    /\ exc = None
    /\ not_found_xpaths = <<>>
    /\ not_found_els = <<>>
    /\ visits = <<>>
    /\ snippets = <<>>
    /\ result = <<>>
    /\ panos = None
    /\ updates = None
    /\ job = None

NextIgnore == GenerateSkilletFromConfigs

SpecIgnore == InitIgnore /\ [][NextIgnore]_vars

\* ------------------------------------------------------------ the ordering on its own
\* full_xpath values of snippets: what each contains is named on the right
OrderPaths ==
    { <<Bare("."), Bare("shared"), Bare("tag"), Bare("entry")>>,            \* /shared/tag
      <<Bare("."), Bare("shared"), Bare("profiles"),
        Bare("custom-url-category"), Bare("entry")>>,                      \* /shared/profiles, /profiles/custom-url-category
      <<Bare("."), Bare("shared"), Bare("log-settings")>>,                  \* none
      <<Bare("."), Bare("network"), Bare("interface"), Bare("entry")>>,     \* /network/interface
      <<Bare("."), Bare("mgt-config"), Bare("users")>>,                     \* none
      <<Bare("."), Bare("rulebase"), Bare("security"), Bare("rules"),
        Bare("entry")>>,                                                   \* /rulebase
      <<Bare("."), Bare("rulebase"), Bare("address"), Bare("entry")>> }     \* /rulebase, /address/entry

\* the snippet the assembly builds for the element at full_xpath
SnippetFor(full_xpath, random) ==
    [name |-> <<TagOf(SplitXpath(full_xpath)[2]), random>>,
     xpath |-> ForceFullXpath(SplitXpath(full_xpath)[1]),
     element |-> [tag |-> TagOf(SplitXpath(full_xpath)[2]), attrib |-> <<>>,
                  text |-> None, children |-> <<>>],
     full_xpath |-> full_xpath]

OrderPool == { SnippetFor(x, r) : x \in OrderPaths, r \in 1..NumRandom }

SnippetLists == UNION { [1..n -> OrderPool] : n \in 0..MaxSnippets }

InitOrder ==
    /\ split = None
    /\ cleaned = None
    /\ cmd = None
    /\ snippets \in SnippetLists
    /\ pc = "order"
    /\ previous_doc = <<>>
    /\ latest_doc = <<>>
    /\ edits = 0
    /\ exc = None
    /\ not_found_xpaths = <<>>
    /\ not_found_els = <<>>
    /\ visits = <<>>
    /\ result = <<>>
    /\ well_formed = AllWellFormed
    /\ panos = None
    /\ updates = None
    /\ job = None

\* return self.__order_snippets(snippets)
OrderSnippetsCall ==
    /\ pc = "order"
    /\ result' = OrderSnippets(snippets)
    /\ pc' = "done"
    /\ UNCHANGED <<previous_doc, latest_doc, edits, exc, not_found_xpaths,
                   not_found_els, visits, snippets, well_formed, panos, updates, job,
                   split, cleaned, cmd>>

NextOrder == OrderSnippetsCall

SpecOrder == InitOrder /\ [][NextOrder]_vars

\* ------------------------------------------------------------ connecting to the device
\* what str(pxe) of a PanXapiError contains; "ok" when the call raises nothing
CtorOutcomes == {"ok", "403", "Errno 111", "Errno 60", "other"}

KeygenOutcomes == {"ok", "403", "other"}

\* xapi.status_detail after the calls
StatusDetails == {None, "URLError", "timed out"}

\* the arguments of Panos(...) and the behaviour of the device, before the call
PanosCalls ==
    [hostname : {None, "host"}, api_username : {None, "user"},
     api_password : {None, "pw"},
     ctor : CtorOutcomes, keygen : KeygenOutcomes, status_detail : StatusDetails,
     connected : {FALSE}, offline_mode : {FALSE}, xapi : {None}]

\* Panoply.connect: the object afterwards and the exception raised
Connect(p, allow_offline) ==
    IF p.keygen = "ok"
    THEN [obj |-> [p EXCEPT !.connected = TRUE], exc |-> None]
    ELSE IF p.keygen = "403"
    THEN [obj |-> p, exc |-> "LoginException"]
    ELSE IF allow_offline
    THEN [obj |-> [p EXCEPT !.connected = FALSE], exc |-> None]
    ELSE [obj |-> p, exc |-> "PanoplyException"]

\* Panoply.__init__
PanoplyInit(p) ==
    IF p.hostname = None /\ p.api_username = None /\ p.api_password = None
    THEN [obj |-> [p EXCEPT !.offline_mode = TRUE], exc |-> None]
    ELSE CASE p.ctor = "403" -> [obj |-> p, exc |-> "TargetLoginException"]
           [] p.ctor = "Errno 111" -> [obj |-> p, exc |-> "TargetConnectionException"]
           [] p.ctor = "Errno 60" -> [obj |-> p, exc |-> "TargetConnectionException"]
           [] p.ctor = "other" -> [obj |-> p, exc |-> "TargetGenericException"]
           [] p.ctor = "ok" -> Connect([p EXCEPT !.xapi = "PanXapi"], TRUE)

\* Panos.__init__; 'URLError' in None raises TypeError
PanosInit(p) ==
    LET r == PanoplyInit(p)
    IN  IF r.exc # None THEN r
        ELSE IF r.obj.connected THEN r
        ELSE IF r.obj.xapi = None THEN r
        ELSE IF r.obj.status_detail = None THEN [r EXCEPT !.exc = "TypeError"]
        ELSE IF r.obj.status_detail = "URLError"
        THEN [r EXCEPT !.exc = "TargetConnectionException"]
        ELSE r

InitPanos ==
    /\ split = None
    /\ cleaned = None
    /\ cmd = None
    /\ panos \in PanosCalls
    /\ pc = "init"
    /\ exc = None
    /\ previous_doc = <<>>
    /\ latest_doc = <<>>
    /\ well_formed = AllWellFormed
    /\ edits = 0
    /\ not_found_xpaths = <<>>
    /\ not_found_els = <<>>
    /\ visits = <<>>
    /\ snippets = <<>>
    /\ result = <<>>
    /\ updates = None
    /\ job = None

PanosConstruct ==
    /\ pc = "init"
    /\ LET r == PanosInit(panos)
       IN  /\ panos' = r.obj
           /\ exc' = r.exc
           /\ pc' = IF r.exc = None THEN "constructed" ELSE "raised"
    /\ UNCHANGED <<previous_doc, latest_doc, edits, not_found_xpaths, not_found_els,
                   visits, snippets, result, well_formed, updates, job,
                   split, cleaned, cmd>>

NextPanos == PanosConstruct

SpecPanos == InitPanos /\ [][NextPanos]_vars

\* ------------------------------------------------------------ content updates
\* an entry of the device's answer: version is the text 'first-second', given
\* as the pair of its two numbers, and current is the text of <current>
ContentEntries ==
    [version : (1..MaxVersion) \X (1..MaxVersion), current : {"yes", "no"}]

EntryLists == UNION { [1..n -> ContentEntries] : n \in 0..MaxEntries }

\* version.split('-') and int() of the two parts
VersionParts(version) == [first |-> version[1], second |-> version[2]]

\* the loop over er.findall('.//entry'); '' is the empty sequence
RECURSIVE LatestVersion(_, _, _)
LatestVersion(entries, i, latest) ==
    IF i > Len(entries) THEN latest
    ELSE LET parts == VersionParts(entries[i].version)
         IN  LatestVersion(entries, i + 1,
                 IF parts.first > latest.first /\ parts.second > latest.second
                 THEN [version |-> entries[i].version, first |-> parts.first,
                       second |-> parts.second, current |-> entries[i].current]
                 ELSE latest)

\* check_content_updates: none is set when the call returns None
CheckContentUpdates(entries, op_error) ==
    IF op_error THEN [none |-> TRUE, version |-> <<>>]
    ELSE LET latest == LatestVersion(entries, 1,
                           [version |-> <<>>, first |-> 0, second |-> 0, current |-> "no"])
         IN  IF latest.current = "yes"
             THEN [none |-> TRUE, version |-> <<>>]
             ELSE [none |-> FALSE, version |-> latest.version]

InitUpdates ==
    /\ split = None
    /\ cleaned = None
    /\ cmd = None
    /\ updates \in [entries : EntryLists, op_error : {FALSE},
                    ret : {[none |-> TRUE, version |-> <<>>]}]
               \cup [entries : {<<>>}, op_error : {TRUE},
                     ret : {[none |-> TRUE, version |-> <<>>]}]
    /\ pc = "check"
    /\ exc = None
    /\ previous_doc = <<>>
    /\ latest_doc = <<>>
    /\ well_formed = AllWellFormed
    /\ edits = 0
    /\ not_found_xpaths = <<>>
    /\ not_found_els = <<>>
    /\ visits = <<>>
    /\ snippets = <<>>
    /\ result = <<>>
    /\ panos = None
    /\ job = None

CheckContentUpdatesCall ==
    /\ pc = "check"
    /\ updates' = [updates EXCEPT !.ret = CheckContentUpdates(updates.entries, updates.op_error)]
    /\ pc' = "checked"
    /\ UNCHANGED <<previous_doc, latest_doc, edits, exc, not_found_xpaths, not_found_els,
                   visits, snippets, result, well_formed, panos, job,
                   split, cleaned, cmd>>

NextUpdates == CheckContentUpdatesCall

SpecUpdates == InitUpdates /\ [][NextUpdates]_vars

\* ------------------------------------------------------------ waiting for a job
\* what one call of xapi.op for the job gives: it raises PanXapiError, the
\* status of the answer is not 'success', the answer has no status element, or
\* the job status is FIN, ACT or another text
Responses == {"PanXapiError", "error", "no status", "FIN", "ACT", "PEND"}

\* wait_for_job(job_id, interval, timeout) at its first pass of the loop; now
\* is time.time() - mark, polled_at is the time of the latest call of xapi.op
JobCalls ==
    [interval : 1..MaxInterval, timeout : 1..MaxTimeout, now : {0},
     polled_at : {0}, last : {None}, ret : {FALSE}]

InitJob ==
    /\ split = None
    /\ cleaned = None
    /\ cmd = None
    /\ job \in JobCalls
    /\ pc = "wait"
    /\ exc = None
    /\ previous_doc = <<>>
    /\ latest_doc = <<>>
    /\ well_formed = AllWellFormed
    /\ edits = 0
    /\ not_found_xpaths = <<>>
    /\ not_found_els = <<>>
    /\ visits = <<>>
    /\ snippets = <<>>
    /\ result = <<>>
    /\ panos = None
    /\ updates = None

\* one pass of the while loop: the call, the tests on the answer and the sleep
WaitForJobPass ==
    /\ pc = "wait"
    /\ job.now <= MaxTime
    /\ \E response \in Responses :
          LET polled == [job EXCEPT !.last = response, !.polled_at = job.now]
              slept == [polled EXCEPT !.now = job.now + job.interval]
          IN  CASE response = "PanXapiError" ->
                      /\ job' = [polled EXCEPT !.ret = FALSE]
                      /\ pc' = "waited"
                [] response = "no status" ->
                      /\ job' = [polled EXCEPT !.ret = FALSE]
                      /\ pc' = "waited"
                [] response = "FIN" ->
                      /\ job' = [polled EXCEPT !.ret = TRUE]
                      /\ pc' = "waited"
                [] response \in {"ACT", "PEND"} ->
                      /\ job' = slept
                      /\ pc' = "wait"
                [] response = "error" ->
                      IF job.now > job.timeout
                      THEN /\ job' = [polled EXCEPT !.ret = FALSE]
                           /\ pc' = "waited"
                      ELSE /\ job' = slept
                           /\ pc' = "wait"
    /\ UNCHANGED <<previous_doc, latest_doc, edits, exc, not_found_xpaths, not_found_els,
                   visits, snippets, result, well_formed, panos, updates,
                   split, cleaned, cmd>>

NextJob == WaitForJobPass

SpecJob == InitJob /\ [][NextJob]_vars

\* ------------------------------------------------------------ splitting an xpath string
\* an xpath string as the sequence of its characters: '/', '"', '.' and a
\* letter that stands for every other character
Chars == {"/", "\"", ".", "a"}

Strings == UNION { [1..n -> Chars] : n \in 0..MaxChars }

\* the number of '"' in s[from..to]
Quotes(s, from, to) == Cardinality({ i \in from..to : s[i] = "\"" })

\* a '/' with no lookahead
SplitPointEvery(s, i) == s[i] = "/"

\* the pattern /(?=(?:[^"]*"[^"]*")*[^"]*$): a '/' that an even number of '"'
\* follows up to the end of the string
SplitPoint(s, i) == s[i] = "/" /\ Quotes(s, i + 1, Len(s)) % 2 = 0

\* re.split(pattern, xpath): the pieces between the split points
RECURSIVE ReSplit(_, _, _)
ReSplit(s, i, piece) ==
    IF i > Len(s) THEN <<piece>>
    ELSE IF SplitPoint(s, i) THEN <<piece>> \o ReSplit(s, i + 1, <<>>)
    ELSE ReSplit(s, i + 1, Append(piece, s[i]))

\* "/".join(parts)
RECURSIVE Join(_, _)
Join(parts, i) ==
    IF i > Len(parts) THEN <<>>
    ELSE (IF i > 1 THEN <<"/">> ELSE <<>>) \o parts[i] \o Join(parts, i + 1)

\* __split_xpath on the characters of the string
SplitXpathChars(xpath) ==
    LET xpath_parts == ReSplit(xpath, 1, <<>>)
    IN  [xpath |-> xpath,
         new_xpath |-> Join(SubSeq(xpath_parts, 1, Len(xpath_parts) - 1), 1),
         entry |-> xpath_parts[Len(xpath_parts)]]

InitSplit ==
    /\ split \in [xpath : Strings, new_xpath : {<<>>}, entry : {<<>>}]
    /\ pc = "splitting"
    /\ previous_doc = <<>>
    /\ latest_doc = <<>>
    /\ well_formed = AllWellFormed
    /\ edits = 0
    /\ exc = None
    /\ not_found_xpaths = <<>>
    /\ not_found_els = <<>>
    /\ visits = <<>>
    /\ snippets = <<>>
    /\ result = <<>>
    /\ panos = None
    /\ updates = None
    /\ job = None
    /\ cleaned = None
    /\ cmd = None

SplitXpathCall ==
    /\ pc = "splitting"
    /\ split' = SplitXpathChars(split.xpath)
    /\ pc' = "split"
    /\ UNCHANGED <<previous_doc, latest_doc, well_formed, edits, exc, not_found_xpaths,
                   not_found_els, visits, snippets, result, panos, updates,
                   job, cleaned, cmd>>

NextSplit == SplitXpathCall

SpecSplit == InitSplit /\ [][NextSplit]_vars

\* ------------------------------------------------------------ cleaning the uuid
\* child.attrib.pop('uuid')
PopUuid(attrib) == SelectSeq(attrib, LAMBDA kv : kv[1] # "uuid")

\* __clean_uuid of an element given with its descendants, the element first:
\* findall('.//*[@uuid]') selects among the descendants of the element
CleanUuid(changed_element) ==
    [i \in 1..Len(changed_element) |->
        IF i = 1 THEN changed_element[i]
        ELSE [changed_element[i] EXCEPT !.attrib = PopUuid(@)]]

\* the argument of __clean_uuid: None when absent is set
CleanCalls ==
    [absent : {FALSE}, element : Fragments, out_absent : {FALSE}, out : {<<>>}]
      \cup {[absent |-> TRUE, element |-> <<>>, out_absent |-> FALSE, out |-> <<>>]}

InitClean ==
    /\ cleaned \in CleanCalls
    /\ pc = "cleaning"
    /\ previous_doc = <<>>
    /\ latest_doc = <<>>
    /\ well_formed = AllWellFormed
    /\ edits = 0
    /\ exc = None
    /\ not_found_xpaths = <<>>
    /\ not_found_els = <<>>
    /\ visits = <<>>
    /\ snippets = <<>>
    /\ result = <<>>
    /\ panos = None
    /\ updates = None
    /\ job = None
    /\ split = None
    /\ cmd = None

CleanUuidCall ==
    /\ pc = "cleaning"
    /\ cleaned' = IF cleaned.absent
                  THEN [cleaned EXCEPT !.out_absent = TRUE]
                  ELSE [cleaned EXCEPT !.out = CleanUuid(cleaned.element)]
    /\ pc' = "cleaned"
    /\ UNCHANGED <<previous_doc, latest_doc, well_formed, edits, exc, not_found_xpaths,
                   not_found_els, visits, snippets, result, panos, updates,
                   job, split, cmd>>

NextClean == CleanUuidCall

SpecClean == InitClean /\ [][NextClean]_vars

\* ------------------------------------------------------------ executing a command
\* the tuple of execute_cmd's first test
ValidCmds == {"op", "set", "edit", "override", "move", "rename", "clone",
              "show", "get", "delete"}

\* values of the cmd argument and of params['cmd']; "commit" is a method of
\* xapi, "validate" and "bogus" are no attributes of it
CmdArgs == ValidCmds \cup {"validate", "commit"}

ParamCmds == ValidCmds \cup {"commit", "bogus"}

\* the keys of params: cmd is None when the key is absent; newname stands for
\* 'new_name' or 'newname'
ParamDicts ==
    [cmd : ParamCmds \cup {None}, cmd_str : BOOLEAN, xpath : BOOLEAN,
     element : BOOLEAN, where : BOOLEAN, newname : BOOLEAN, xpath_from : BOOLEAN]

\* the exception and the xapi method called
Outcome(raised, called) == [raised |-> raised, called |-> called]

\* the try block that fills kwargs: a missing key gives KeyError there
MissingKey(c, params) ==
    \/ c \in {"set", "edit", "override"} /\ ~params.element
    \/ c = "move" /\ ~params.where
    \/ c \in {"rename", "clone"} /\ ~params.newname
    \/ c = "clone" /\ ~params.xpath_from

\* execute_cmd: cmd is read again from params after the test; xapi.commit takes
\* no xpath argument, so calling it with kwargs raises TypeError
ExecuteCmd(cmd_arg, params, pan_xapi_error) ==
    IF cmd_arg \notin ValidCmds THEN Outcome("PanoplyException", None)
    ELSE IF params.cmd = None THEN Outcome("KeyError", None)
    ELSE IF params.cmd = "bogus" THEN Outcome("AttributeError", None)
    ELSE IF params.cmd = "op"
    THEN IF ~params.cmd_str THEN Outcome("KeyError", None)
         ELSE Outcome(IF pan_xapi_error THEN "PanoplyException" ELSE None, "op")
    ELSE IF ~params.xpath THEN Outcome("KeyError", None)
    ELSE IF MissingKey(params.cmd, params) THEN Outcome("PanoplyException", None)
    ELSE IF params.cmd = "commit" THEN Outcome("TypeError", None)
    ELSE Outcome(IF pan_xapi_error THEN "PanoplyException" ELSE None, params.cmd)

InitCmd ==
    /\ cmd \in [cmd : CmdArgs, params : ParamDicts, pan_xapi_error : BOOLEAN,
                   out : {Outcome(None, None)}]
    /\ pc = "execute"
    /\ previous_doc = <<>>
    /\ latest_doc = <<>>
    /\ well_formed = AllWellFormed
    /\ edits = 0
    /\ exc = None
    /\ not_found_xpaths = <<>>
    /\ not_found_els = <<>>
    /\ visits = <<>>
    /\ snippets = <<>>
    /\ result = <<>>
    /\ panos = None
    /\ updates = None
    /\ job = None
    /\ split = None
    /\ cleaned = None

ExecuteCmdCall ==
    /\ pc = "execute"
    /\ cmd' = [cmd EXCEPT !.out = ExecuteCmd(cmd.cmd, cmd.params, cmd.pan_xapi_error)]
    /\ pc' = "executed"
    /\ UNCHANGED <<previous_doc, latest_doc, well_formed, edits, exc, not_found_xpaths,
                   not_found_els, visits, snippets, result, panos, updates,
                   job, split, cleaned>>

NextCmd == ExecuteCmdCall

SpecCmd == InitCmd /\ [][NextCmd]_vars

\* ------------------------------------------------------------ properties of the diff
Returned == pc = "done"

IsStrictPrefix(p, q) == Len(p) < Len(q) /\ SubSeq(q, 1, Len(p)) = p

E(tag, attrib, text) == [tag |-> tag, attrib |-> attrib, text |-> text]

\* C1: generate_skillet_from_configs(X, X) returns an empty snippet list for
\* every document X.
C1_Idempotence ==
    (Returned /\ previous_doc = latest_doc) => result = <<>>

C3_Subsumption ==
    Returned =>
      \A i, j \in 1..Len(not_found_xpaths) :
         ~IsStrictPrefix(not_found_xpaths[i], not_found_xpaths[j])

\* Scenario A: <config><network/></config> against
\* <config><network><interface><entry name="eth1"/></interface></network></config>
ScenarioAPrevious == <<Node(0, E("network", <<>>, None))>>

ScenarioALatest ==
    <<Node(0, E("network", <<>>, None)),
      Node(1, E("interface", <<>>, None)),
      Node(2, E("entry", <<<<"name", "eth1">>>>, None))>>

ScenarioA ==
    Returned /\ previous_doc = ScenarioAPrevious /\ latest_doc = ScenarioALatest

\* C6 as claimed: in Scenario A the diff yields exactly one snippet, whose
\* container path ends in /network/interface and whose element is the entry
\* element alone.
C6_ScenarioA_Claimed ==
    ScenarioA =>
      /\ Len(result) = 1
      /\ result[1].xpath = <<Bare(""), Bare("config"), Bare("network"), Bare("interface")>>
      /\ result[1].element = Tostring(latest_doc, 3)

\* C6 amended: in Scenario A the diff yields exactly one snippet, whose
\* container path is /config/network and whose element is the interface
\* element with the entry inside it.
C6_ScenarioA ==
    ScenarioA =>
      /\ Len(result) = 1
      /\ result[1].xpath = <<Bare(""), Bare("config"), Bare("network")>>
      /\ result[1].element = Tostring(latest_doc, 2)
      /\ result[1].element.children = <<Tostring(latest_doc, 3)>>

C6_Witness == ScenarioA /\ Len(result) = 1

\* a visit of the comparator to a childless element whose xpath resolves in the
\* previous document to an element with another text
TextChanged(v) ==
    /\ Children(latest_doc, v.el) = <<>>
    /\ XPath(previous_doc, v.xpath) # <<>>
    /\ previous_doc[XPath(previous_doc, v.xpath)[1]].text # latest_doc[v.el].text

\* C7: for such a visit the element's xpath is returned by the comparator, and
\* a snippet is emitted whose container is the parent's path and whose element
\* is the leaf with its latest text.
C7_TextChange ==
    Returned =>
      \A k \in 1..Len(visits) :
         TextChanged(visits[k]) =>
           /\ \E i \in 1..Len(not_found_xpaths) :
                 /\ not_found_xpaths[i] = visits[k].xpath
                 /\ not_found_els[i] = visits[k].el
           /\ \E i \in 1..Len(result) :
                 /\ result[i].xpath = ForceFullXpath(SplitXpath(visits[k].xpath)[1])
                 /\ result[i].element = Tostring(latest_doc, visits[k].el)

\* C8: when the comparator visits an element found in the previous document
\* whose children are a list and the matcher reports no difference, no xpath is
\* returned for the element or anything below it; and an unchanged list (a parent
\* with two or more children of one tag, the same in both documents) yields no
\* snippet.
C8_ListShortCircuit ==
    /\ Returned =>
         \A k \in 1..Len(visits) :
            LET el == visits[k].el
                found == XPath(previous_doc, visits[k].xpath)
            IN  ( /\ found # <<>>
                  /\ CheckChildrenAreList(latest_doc, Children(latest_doc, el))
                  /\ DiffTrees(previous_doc, found[1], latest_doc, el) = 0 )
                => \A i \in 1..Len(not_found_els) :
                      not_found_els[i] \notin Subtree(latest_doc, el)
    /\ ( /\ pc \in {"done", "raised"}
         /\ previous_doc = latest_doc
         /\ Len(latest_doc) >= 3
         /\ \A n \in 2..Len(latest_doc) :
               latest_doc[n].parent = 1 /\ latest_doc[n].tag = latest_doc[2].tag )
       => (Returned /\ result = <<>>)

\* an unchanged list of two entries that differ was compared
C8_Witness ==
    /\ Returned
    /\ previous_doc = latest_doc
    /\ Len(latest_doc) = 3
    /\ latest_doc[2].parent = 1 /\ latest_doc[3].parent = 1
    /\ latest_doc[2].tag = latest_doc[3].tag
    /\ Tostring(latest_doc, 2) # Tostring(latest_doc, 3)
    /\ Len(visits) = 1
    /\ result = <<>>

\* ------------------------------------------------------------ properties of the ordering
\* the index of the first priority prefix the snippet's full_xpath contains, or 0
FirstPrefix(s) ==
    IF \E i \in 1..Len(xpaths) : Matches(s, xpaths[i])
    THEN CHOOSE i \in 1..Len(xpaths) :
            /\ Matches(s, xpaths[i])
            /\ \A j \in 1..(i - 1) : ~Matches(s, xpaths[j])
    ELSE 0

Deferred(s) == \E i \in 1..Len(post_xpaths) : Matches(s, post_xpaths[i])

\* the snippet matches a priority prefix after the k-th or a deferred prefix,
\* and no priority prefix up to the k-th
OnlyLater(s, k) ==
    /\ \A j \in 1..k : ~Matches(s, xpaths[j])
    /\ FirstPrefix(s) > k \/ Deferred(s)

Count(s, list) == Cardinality({ i \in 1..Len(list) : list[i] = s })

Range(list) == { list[i] : i \in 1..Len(list) }

\* C4: every snippet whose full_xpath contains a priority prefix stands, at
\* each place it has in the output, before every snippet that matches only a
\* later priority prefix or only a deferred prefix.
C4_PrefixCorrectness ==
    Returned =>
      \A a, b \in 1..Len(result) :
         ( /\ FirstPrefix(result[a]) > 0
           /\ OnlyLater(result[b], FirstPrefix(result[a])) )
         => a < b

\* C5: the output of the ordering is a permutation of its input: every snippet
\* is in the output as many times as in the input.
C5_Permutation ==
    Returned =>
      \A s \in Range(snippets) \cup Range(result) :
         Count(s, result) = Count(s, snippets)

\* C9 as claimed: every snippet whose full_xpath contains /rulebase comes after
\* every snippet whose full_xpath does not contain it.
C9_RulebaseLast_Claimed ==
    Returned =>
      \A a, b \in 1..Len(result) :
         (Deferred(result[a]) /\ ~Deferred(result[b])) => b < a

\* C9 amended: every snippet whose full_xpath contains /rulebase and no priority
\* prefix comes after every snippet whose full_xpath does not contain /rulebase;
\* a /shared/tag/entry snippet precedes a /rulebase/security/rules/entry snippet.
C9_RulebaseLast ==
    Returned =>
      \A a, b \in 1..Len(result) :
         ( /\ Deferred(result[a])
           /\ FirstPrefix(result[a]) = 0
           /\ ~Deferred(result[b]) )
         => b < a

TagEntryPath == <<Bare("."), Bare("shared"), Bare("tag"), Bare("entry")>>

RulesEntryPath ==
    <<Bare("."), Bare("rulebase"), Bare("security"), Bare("rules"), Bare("entry")>>

\* the rules entry came first in the input, before a tag entry and a snippet
\* that matches no prefix, and is last in the output
C9_Witness ==
    /\ Returned
    /\ Len(snippets) = 3 /\ Len(result) = 3
    /\ snippets[1].full_xpath = RulesEntryPath
    /\ snippets[2].full_xpath = TagEntryPath
    /\ FirstPrefix(snippets[3]) = 0 /\ ~Deferred(snippets[3])
    /\ result[1].full_xpath = TagEntryPath
    /\ result[3].full_xpath = RulesEntryPath

\* ------------------------------------------------------------ the returned snippets
\* a serialized element that carries a uuid attribute, on itself or below
RECURSIVE CarriesUuid(_)
CarriesUuid(element) ==
    \/ \E i \in 1..Len(element.attrib) : element.attrib[i][1] = "uuid"
    \/ \E i \in 1..Len(element.children) : CarriesUuid(element.children[i])

\* C11: no snippet of the returned list has a uuid attribute in its serialized
\* element, neither on the element itself nor on a descendant.
C11_UuidStripped ==
    Returned => \A i \in 1..Len(result) : ~CarriesUuid(result[i].element)

\* C12: every snippet of the returned list has an absolute container path, one
\* that begins with /config, also when the changed element is a child of the root.
C12_AbsoluteContainer ==
    Returned =>
        \A i \in 1..Len(result) :
            /\ Len(result[i].xpath) >= 2
            /\ result[i].xpath[1] = Bare("")
            /\ result[i].xpath[2] = Bare("config")

\* C13: every xpath the comparator returns resolves to exactly one element of
\* the latest document.
C13_PathUniqueness ==
    Returned =>
        \A i \in 1..Len(not_found_xpaths) :
            Len(XPath(latest_doc, not_found_xpaths[i])) = 1

\* C15: when the previous or the latest configuration is not well-formed, the
\* diff ends with the parser's exception and returns no list of snippets.
C15_ParseError ==
    (pc # "config" /\ well_formed # AllWellFormed) =>
        /\ pc = "raised"
        /\ exc = "XMLSyntaxError"
        /\ visits = <<>>
        /\ snippets = <<>>
        /\ result = <<>>

C15_Witness ==
    /\ pc = "raised"
    /\ exc = "XMLSyntaxError"
    /\ well_formed = [latest |-> TRUE, previous |-> FALSE]

\* the xpath of visit k has no element in the previous document
IsNewParent(k) == XPath(previous_doc, visits[k].xpath) = <<>>

\* C19: when the xpath of a visited element resolves to no element of the
\* previous document, the comparator returns exactly that xpath for it and
\* visits none of its descendants.
C19_NewParentStops ==
    Returned =>
        \A k \in 1..Len(visits) :
            IsNewParent(k) =>
                /\ \E i \in 1..Len(not_found_xpaths) :
                      /\ not_found_xpaths[i] = visits[k].xpath
                      /\ not_found_els[i] = visits[k].el
                /\ \A j \in 1..Len(visits) :
                      visits[j].el \in Subtree(latest_doc, visits[k].el)
                          => visits[j].el = visits[k].el
                /\ \A i \in 1..Len(not_found_els) :
                      not_found_els[i] \in Subtree(latest_doc, visits[k].el)
                          => not_found_els[i] = visits[k].el

\* a new element that has a child of its own was visited
C19_Witness ==
    /\ Returned
    /\ \E k \in 1..Len(visits) :
          /\ IsNewParent(k)
          /\ Children(latest_doc, visits[k].el) # <<>>

\* the xpath string /config/mgt-config/users/entry[@name="admin"]
AdminPath ==
    <<Bare(""), Bare("config"), Bare("mgt-config"), Bare("users"),
      Part("entry", "attr", <<<<"name", "admin">>>>, "", 0)>>

\* the absolute path of the parent of the element at xpath
Container(xpath) ==
    <<Bare(""), Bare("config")>> \o SubSeq(xpath, 2, Len(xpath) - 1)

\* C14: no snippet of the returned list has the container path
\* /config/mgt-config/users/entry[@name="admin"]; a change with that
\* container is left out, and every other change of the same diff has its snippet.
C14_IgnoreList ==
    Returned =>
        /\ \A j \in 1..Len(result) : result[j].xpath # AdminPath
        /\ \A i \in 1..Len(not_found_xpaths) :
              Container(not_found_xpaths[i]) # AdminPath
                  => \E j \in 1..Len(result) :
                        result[j].full_xpath = not_found_xpaths[i]

\* a diff with a change below the admin account and another change elsewhere
C14_Witness ==
    /\ Returned
    /\ \E i, k \in 1..Len(not_found_xpaths) :
          /\ Container(not_found_xpaths[i]) = AdminPath
          /\ Container(not_found_xpaths[k]) # AdminPath
    /\ result # <<>>

\* ------------------------------------------------------------ shared objects in the ordering
\* the full_xpath contains /shared/ and none of the shared objects that have a
\* prefix of their own
GenericShared(s) ==
    /\ Contains(Tokens(s.full_xpath, 1), <<"/", "shared", "/">>)
    /\ \A kind \in {"certificate", "ssl-tls-service-profile", "tag", "profiles", "reports"} :
          ~Contains(Tokens(s.full_xpath, 1), <<"/", "shared", "/", kind>>)

\* the full_xpath contains one of the /network/ prefixes, /zone/entry or /address/entry
NetworkZoneAddress(s) ==
    \/ \E kind \in {"interface", "virtual-wire", "vlan", "ike", "tunnel",
                    "virtual-router", "profiles"} :
          Contains(Tokens(s.full_xpath, 1), <<"/", "network", "/", kind>>)
    \/ Contains(Tokens(s.full_xpath, 1), <<"/", "zone", "/", "entry">>)
    \/ Contains(Tokens(s.full_xpath, 1), <<"/", "address", "/", "entry">>)

\* C20: in the ordered list a snippet of a generic shared object stands before
\* every snippet that matches a network prefix, a zone entry or an address entry.
C20_SharedBeforeNetwork ==
    Returned =>
        \A a, b \in 1..Len(result) :
            (/\ GenericShared(result[a])
             /\ NetworkZoneAddress(result[b])
             /\ ~GenericShared(result[b])) => a < b

\* ------------------------------------------------------------ the Panos constructor
\* C16: when Panos(...) returns normally the object has connected = True; in
\* every other case the constructor raises.
C16_ConnectedOrRaises ==
    pc = "constructed" => panos.connected

\* ------------------------------------------------------------ content updates
\* version v is not higher than version w, as pairs of integers
VersionLeq(v, w) == v[1] < w[1] \/ (v[1] = w[1] /\ v[2] <= w[2])

\* C17: check_content_updates returns the version that is highest among all the
\* entries listed, versions compared as the pair of integers first-second, or
\* None when that highest version is the one marked current.
C17_HighestVersion ==
    (pc = "checked" /\ ~updates.op_error /\ updates.entries # <<>>) =>
        \E k \in 1..Len(updates.entries) :
            /\ \A j \in 1..Len(updates.entries) :
                  VersionLeq(updates.entries[j].version, updates.entries[k].version)
            /\ IF updates.entries[k].current = "yes"
               THEN updates.ret.none
               ELSE /\ ~updates.ret.none
                    /\ updates.ret.version = updates.entries[k].version

\* ------------------------------------------------------------ waiting for a job
\* C18: wait_for_job returns True when the job reports FIN and False on an
\* error, a missing status or a timeout, and it does not go on polling once the
\* timeout period has elapsed, also when the job keeps reporting ACT: a pass of
\* the loop made after the timeout mark ends the call.
C18_StopsAfterTimeout ==
    /\ pc = "waited" => (job.ret <=> job.last = "FIN")
    /\ pc = "wait" => job.polled_at <= job.timeout

\* ------------------------------------------------------------ unmatched snippets in the ordering
\* the full_xpath contains no priority prefix and no deferred prefix
Unmatched(s) == FirstPrefix(s) = 0 /\ ~Deferred(s)

\* C21: the snippets that match no priority prefix and no deferred prefix are
\* all in the output, after every snippet placed by a priority prefix and
\* before every snippet placed by a deferred prefix, in the relative order
\* they had in the input.
C21_UnmatchedBetween ==
    Returned =>
        /\ \A i \in 1..Len(snippets) :
              Unmatched(snippets[i]) => In(snippets[i], result)
        /\ \A a, b \in 1..Len(result) :
              Unmatched(result[a]) =>
                  /\ FirstPrefix(result[b]) > 0 => b < a
                  /\ (Deferred(result[b]) /\ FirstPrefix(result[b]) = 0) => a < b
                  /\ (Unmatched(result[b]) /\ a < b) =>
                        \E i, j \in 1..Len(snippets) :
                            /\ i < j
                            /\ snippets[i] = result[a]
                            /\ snippets[j] = result[b]

\* two different unmatched snippets around a tag entry in the input: they
\* follow it in the output, in their input order
C21_Witness ==
    /\ pc = "done"
    /\ Len(snippets) = 3 /\ Len(result) = 3
    /\ Unmatched(snippets[1])
    /\ snippets[2].full_xpath = TagEntryPath
    /\ Unmatched(snippets[3])
    /\ snippets[1] # snippets[3]
    /\ result[2] = snippets[1]
    /\ result[3] = snippets[3]

\* ------------------------------------------------------------ the segments of the comparator
\* the diff has returned or raised
Ended == pc \in {"done", "raised"}

\* the last part of the xpath of visit k, the part built for its element
Segment(k) == visits[k].xpath[Len(visits[k].xpath)]

\* visit k is for an element below a child of the root
BelowRootChild(k) == latest_doc[visits[k].el].parent # 0

\* C22: for a child whose only attribute is uuid the comparator builds the
\* text, index or bare form of the segment, never the attribute form.
C22_UuidOnlySegment ==
    Ended =>
        \A k \in 1..Len(visits) :
            (/\ BelowRootChild(k)
             /\ latest_doc[visits[k].el].attrib = <<<<"uuid", "u1">>>>)
                => Segment(k).kind # "attr"

\* the position of element e among the children of its parent
PositionOf(t, e) ==
    CHOOSE i \in 1..Len(Children(t, t[e].parent)) : Children(t, t[e].parent)[i] = e

\* the children of element n are list content with no attributes and no text
\* other than white space
PlainListChildren(t, n) ==
    /\ CheckChildrenAreList(t, Children(t, n))
    /\ \A i \in 1..Len(Children(t, n)) :
          /\ t[Children(t, n)[i]].attrib = <<>>
          /\ t[Children(t, n)[i]].text \in {None, "", " "}

\* C23: a list child with no attributes and empty or absent text gets the
\* segment tag[i], i its position among its siblings, and the walk goes on
\* with that path; a child with no text at all does not make the walk fail.
C23_IndexSegment ==
    Ended =>
        /\ exc # "AttributeError"
        /\ \A k \in 1..Len(visits) :
              (/\ BelowRootChild(k)
               /\ PlainListChildren(latest_doc, latest_doc[visits[k].el].parent))
                  => /\ Segment(k).kind = "index"
                     /\ Segment(k).index = PositionOf(latest_doc, visits[k].el)

\* ------------------------------------------------------------ the split of an xpath string
\* the strings the comparator hands to __split_xpath: they begin with './' and
\* every '"' that opens a value has the '"' that closes it
IsPath(s) ==
    /\ Len(s) >= 2 /\ s[1] = "." /\ s[2] = "/"
    /\ Quotes(s, 1, Len(s)) % 2 = 0

\* position i of s lies between an opening '"' and its closing '"'
InQuotes(s, i) == Quotes(s, 1, i - 1) % 2 = 1

\* C24: __split_xpath splits a path at a '/' outside double quotes only; the
\* container, a '/' and the last segment put together give the path again, and
\* the last segment has no '/' outside double quotes.
C24_SplitRoundTrip ==
    (pc = "split" /\ IsPath(split.xpath)) =>
        /\ split.new_xpath \o <<"/">> \o split.entry = split.xpath
        /\ ~InQuotes(split.xpath, Len(split.new_xpath) + 1)
        /\ \A i \in 1..Len(split.entry) :
              split.entry[i] = "/" => InQuotes(split.entry, i)

\* a path whose last segment has a '/' inside a quoted value
C24_Witness ==
    /\ pc = "split"
    /\ IsPath(split.xpath)
    /\ \E i \in 1..Len(split.entry) : split.entry[i] = "/"
    /\ split.new_xpath # <<>>

\* ------------------------------------------------------------ the cleaned element
\* C25: after __clean_uuid neither the element nor any of its descendants has
\* the uuid attribute; the tags, the texts, the children and the other
\* attributes are as before; an absent element is returned as it is.
C25_CleanUuid ==
    pc = "cleaned" =>
        IF cleaned.absent THEN cleaned.out_absent
        ELSE /\ ~cleaned.out_absent
             /\ Len(cleaned.out) = Len(cleaned.element)
             /\ \A i \in 1..Len(cleaned.out) :
                   /\ \A j \in 1..Len(cleaned.out[i].attrib) :
                         cleaned.out[i].attrib[j][1] # "uuid"
                   /\ cleaned.out[i].attrib
                        = SelectSeq(cleaned.element[i].attrib, LAMBDA kv : kv[1] # "uuid")
                   /\ cleaned.out[i].tag = cleaned.element[i].tag
                   /\ cleaned.out[i].text = cleaned.element[i].text
                   /\ cleaned.out[i].parent = cleaned.element[i].parent

\* ------------------------------------------------------------ the assembly
\* C26: a path that resolves to more than one element of the latest document
\* makes the diff fail; no returned snippet is built from one of several
\* elements that its full_xpath resolves to.
C26_NoSilentChoice ==
    pc = "done" =>
        \A j \in 1..Len(result) :
            Len(XPath(latest_doc, result[j].full_xpath)) <= 1

\* the absolute location of the element of snippet s
Location(s) == <<Bare(""), Bare("config")>> \o Tail(s.full_xpath)

\* C27: no returned snippet has a location, its container path with its last
\* segment, that is /config/mgt-config/users/entry[@name="admin"] or lies below
\* it, whether the admin entry is new as a whole or changed inside.
C27_AdminNeverEmitted ==
    pc = "done" =>
        \A j \in 1..Len(result) :
            ~(/\ Len(Location(result[j])) >= Len(AdminPath)
              /\ SubSeq(Location(result[j]), 1, Len(AdminPath)) = AdminPath)

\* C28: for every element of the latest document whose xpath the comparator
\* returned and whose container is not ignored, the returned list has a snippet
\* for that xpath whose serialized element is that element.
C28_Completeness ==
    pc = "done" =>
        \A i \in 1..Len(not_found_xpaths) :
            Container(not_found_xpaths[i]) # AdminPath =>
                \E j \in 1..Len(result) :
                    /\ result[j].full_xpath = not_found_xpaths[i]
                    /\ result[j].element = Tostring(latest_doc, not_found_els[i])

\* ------------------------------------------------------------ the command executed
\* C29: execute_cmd calls no xapi method other than the one its cmd argument
\* names, which is one of op, set, edit, override, move, rename, clone, show,
\* get and delete.
C29_AllowListed ==
    (pc = "executed" /\ cmd.out.called # None) =>
        /\ cmd.out.called = cmd.cmd
        /\ cmd.cmd \in {"op", "set", "edit", "override", "move", "rename",
                        "clone", "show", "get", "delete"}

====
